---- MODULE Spec2Model ----
(***************************************************************************)
(* Model of package aeds (src/aeds.go, the context-based revision at lines *)
(* 271-581): entities kept in the App Engine datastore and, for entities   *)
(* that declare a cache TTL, in memcache.                                  *)
(*                                                                         *)
(* Every request runs one operation (FromId, Put, Delete, Modify,          *)
(* ClearCache).  An operation is a sequence of calls to the datastore and  *)
(* to memcache; each call is one atomic step of the model, and steps of    *)
(* different requests interleave freely.  The datastore is linearizable    *)
(* per key and offers optimistic transactions (RunInTransaction); memcache *)
(* is a best-effort map whose entries may vanish at any time and whose     *)
(* calls may fail.                                                         *)
(*                                                                         *)
(* Package kvs (src/kvs/kvs.go) keeps expiring key-value pairs in the same *)
(* two tiers: Put, Find and Delete serve requests, CollectGarbage sweeps   *)
(* expired rows out of the datastore in pages found by a query over the    *)
(* index on Expires, which lags behind the rows (Note_eventual).           *)
(***************************************************************************)
EXTENDS Integers, FiniteSets, Sequences, TLC

\* ------------------------------------------------------------- bounds
NProcs == 2
NKeys == 1
MaxVal == 2
MaxOps == 4
MaxCacheFaults == 1
MaxStoreFaults == 1
\* PutMulti: keys, operations and batch length of SpecMulti
NMultiKeys == 2
MultiOps == 2
MaxBatch == 2

\* attempts of datastore.RunInTransaction when its options are nil
MaxAttempts == 3

Procs == 1..NProcs
Keys == 1..NKeys
Vals == 0..MaxVal
\* stands for "no value": an entity not loaded, a key with no entry
NoVal == 0 - 1
Nil == "nil"

\* errors a datastore call returns when the store is unreachable or the
\* caller's context has expired
StoreErrs == {"StorageFault", "DeadlineExceeded"}

\* mutation functions a caller hands to Modify
Funcs == {"inc", "dec"}

VARIABLES
    ttl,        \* key -> CacheTtl() of the entity stored under the key
    store,      \* datastore: key -> [exists, val]
    cache,      \* memcache: key -> value or NoVal
    pc,         \* process -> position inside its operation
    loc,        \* process -> locals of the running operation (es, i: the
                \* batch of PutMulti and the entities it has gone through;
                \* fcalls: the calls of Modify's f so far)
    last,       \* the operation that returned most recently (prev: the one before)
    serial,     \* key -> the row a serial execution of the commits leaves
    opsLeft,    \* operations that may still be started
    faults,     \* [cache, store]: faults the tiers may still inject
    now,        \* kvs: the clock, time.Now(); 0 is the zero time.Time
    kvStore,    \* kvs: datastore rows of kind "kvs": key -> [exists, val, expires]
    kvIndex,    \* kvs: the index on Expires that queries read: key -> Expires or NoIdx
    kvCache,    \* kvs: memcache: key -> [val, exp]
    kv,         \* kvs: process -> its running Put, Find or Delete
    kvLast,     \* kvs: the Put, Find or Delete that returned most recently
    kvPut,      \* kvs: key -> the pair a Put with a Ttl has stored (history)
    gc,         \* kvs: the running or finished CollectGarbage
    sequence,   \* the Sequence that Next is called on
    sequences,  \* datastore row of the sequence in kind "sequences": [exists, Value]
    tx,         \* process -> its transaction around a call of Sequence.Next
    assigned,   \* the values Next has returned to committed transactions, in
                \* commit order, and whether a failed read was among them (history)
    declares,   \* Modify, step by step: the optional interfaces the entity implements
    slices,     \* Modify, step by step: the stored row, [exists, items]; items is
                \* the entity's slice property
    attempts    \* Modify, step by step: process -> its call of Modify, the entity
                \* it was handed and the steps of the current attempt

aedsVars == <<ttl, store, cache, pc, loc, last, serial>>
kvsVars == <<now, kvStore, kvIndex, kvCache, kv, kvLast, kvPut, gc>>
sequenceVars == <<sequence, sequences, tx, assigned>>
attemptVars == <<declares, slices, attempts>>

vars == <<ttl, store, cache, pc, loc, last, serial, opsLeft, faults,
          now, kvStore, kvIndex, kvCache, kv, kvLast, kvPut, gc,
          sequence, sequences, tx, assigned,
          declares, slices, attempts>>

\* ------------------------------------------------------------ entities

\* CacheTtl() of the entity stored under key k; zero when the entity
\* returns zero or does not implement CanBeCached
CacheTtl(k) == ttl[k]

\* a canBeCached that finds no entity cacheable
canBeCachedNever(k) == FALSE

\* a canBeCached that finds every entity cacheable
canBeCachedAlways(k) == TRUE

canBeCached(k) == CacheTtl(k) > 0

NoRow == [exists |-> FALSE, val |-> NoVal]
Row(v) == [exists |-> TRUE, val |-> v]

\* The caller's mutation function f applied to an entity holding v:
\* the error it returns and the value it leaves in the entity.
ApplyF(f, v) ==
    CASE f = "inc" -> IF v >= MaxVal THEN [err |-> "ErrTooBig", val |-> v]
                                     ELSE [err |-> Nil, val |-> v + 1]
      [] f = "dec" -> IF v <= 0 THEN [err |-> "ErrTooSmall", val |-> v]
                                ELSE [err |-> Nil, val |-> v - 1]

\* --------------------------------------------------------------- state

ZeroIO == [cget |-> 0, cset |-> 0, cdel |-> 0, dget |-> 0, dput |-> 0, ddel |-> 0]

IdleLoc ==
    [op |-> "none", key |-> 0, e |-> NoVal, f |-> "none", miss |-> FALSE,
     attempt |-> 0, stale |-> FALSE, io |-> ZeroIO, wrote |-> FALSE,
     logged |-> FALSE, cres |-> "none", ferr |-> Nil, txerr |-> Nil,
     es |-> <<>>, i |-> 0, nfail |-> 0, derr |-> Nil, fcalls |-> 0]

NoLast ==
    [op |-> "none", key |-> 0, f |-> "none", err |-> Nil,
     val |-> NoVal, attempt |-> 0, io |-> ZeroIO, wrote |-> FALSE,
     logged |-> FALSE, cres |-> "none", ferr |-> Nil, txerr |-> Nil,
     es |-> <<>>, i |-> 0, nfail |-> 0, derr |-> Nil, fcalls |-> 0,
     prev |-> "none"]

\* no Modify is followed step by step
AttemptUnused == declares = <<>> /\ slices = <<>> /\ attempts = <<>>

\* no sequence is in use
SequenceUnused ==
    sequence = <<>> /\ sequences = <<>> /\ tx = <<>> /\ assigned = <<>>

\* no key-value pair is in use
KvsUnused ==
    /\ now = 0
    /\ kvStore = <<>> /\ kvIndex = <<>> /\ kvCache = <<>>
    /\ kv = <<>> /\ kvLast = <<>> /\ kvPut = <<>> /\ gc = <<>>

Init ==
    /\ KvsUnused
    /\ SequenceUnused
    /\ AttemptUnused
    /\ ttl \in [Keys -> {0, 1}]
    /\ store \in [Keys -> {NoRow, Row(0)}]
    /\ cache = [k \in Keys |-> NoVal]
    /\ pc = [p \in Procs |-> "idle"]
    /\ loc = [p \in Procs |-> IdleLoc]
    /\ last = NoLast
    /\ serial = store
    /\ opsLeft = MaxOps
    /\ faults = [cache |-> MaxCacheFaults, store |-> MaxStoreFaults]

\* A call starts: the request's entity carries its key (and, for Put, the
\* value to store).
Start(p, op, k, e, f, next) ==
    /\ pc[p] = "idle"
    /\ opsLeft > 0
    /\ opsLeft' = opsLeft - 1
    /\ pc' = [pc EXCEPT ![p] = next]
    /\ loc' = [loc EXCEPT ![p] = [IdleLoc EXCEPT !.op = op, !.key = k, !.e = e, !.f = f]]
    /\ UNCHANGED <<ttl, store, cache, last, serial, faults>>
    /\ UNCHANGED <<kvsVars, sequenceVars, attemptVars>>

\* The operation of p returns err and (for FromId) the entity value val;
\* l is p's locals at the return, L the locals of all processes.
Return(p, err, val, l, L) ==
    /\ pc' = [pc EXCEPT ![p] = "idle"]
    /\ loc' = [L EXCEPT ![p] = IdleLoc]
    /\ last' = [op |-> l.op, key |-> l.key, f |-> l.f, err |-> err,
                val |-> val, attempt |-> l.attempt, io |-> l.io, wrote |-> l.wrote,
                logged |-> l.logged, cres |-> l.cres, ferr |-> l.ferr,
                txerr |-> l.txerr, es |-> l.es, i |-> l.i, nfail |-> l.nfail,
                derr |-> l.derr, fcalls |-> l.fcalls, prev |-> last.op]
    /\ ttl' = ttl
    /\ UNCHANGED <<kvsVars, sequenceVars, attemptVars>>

Goto(p, next, l, L) ==
    /\ pc' = [pc EXCEPT ![p] = next]
    /\ loc' = [L EXCEPT ![p] = l]
    /\ last' = last
    /\ ttl' = ttl
    /\ UNCHANGED <<kvsVars, sequenceVars, attemptVars>>

Count(l, call) == [l EXCEPT !.io[call] = @ + 1]

\* ------------------------------------------------------------ the tiers

\* A write to key k reaches the datastore: every transaction of another
\* process that has read k and not yet committed is now in conflict.
Invalidated(k, p) ==
    [q \in Procs |->
        IF q # p /\ pc[q] = "tx_commit" /\ loc[q].key = k
        THEN [loc[q] EXCEPT !.stale = TRUE] ELSE loc[q]]

CacheFault == faults.cache > 0
StoreFault == faults.store > 0
UseCacheFault == faults' = [faults EXCEPT !.cache = @ - 1]
UseStoreFault == faults' = [faults EXCEPT !.store = @ - 1]

\* outcomes of memcache.Delete(key)
CacheDeleteOutcomes(k) ==
    {IF cache[k] = NoVal THEN "miss" ELSE "ok"} \cup (IF CacheFault THEN {"error"} ELSE {})

\* outcomes of memcache.Get(key)
CacheGetOutcomes(k) ==
    {IF cache[k] = NoVal THEN "miss" ELSE "hit"} \cup (IF CacheFault THEN {"error"} ELSE {})

\* outcomes of datastore.Get(key, e) outside the error case
StoreGetOutcomes(k) ==
    IF store[k].exists THEN {"ok", "mismatch"} ELSE {"nosuch"}

\* memcache drops an entry: its expiration passed, or it was evicted
Evict(k) ==
    /\ cache[k] # NoVal
    /\ cache' = [cache EXCEPT ![k] = NoVal]
    /\ UNCHANGED <<ttl, store, pc, loc, last, serial, opsLeft, faults>>
    /\ UNCHANGED <<kvsVars, sequenceVars, attemptVars>>

\* --------------------------------------------------------------- FromId

BeginFromId(p, k) ==
    Start(p, "FromId", k, NoVal, "none", IF CacheTtl(k) > 0 THEN "fromid_cache" ELSE "fromid_get")

\* a FromId that takes every failed lookup for a miss
FromIdCacheMissOrError(out) == out \in {"miss", "error"}

\* what FromId does with the result of memcache.Get
FromIdCacheMiss(out) == out = "miss"

\* memcache.Get(c, lookupKey.String())
FromIdCache(p) ==
    /\ pc[p] = "fromid_cache"
    /\ LET k == loc[p].key
           l0 == Count(loc[p], "cget")
       IN \E out \in CacheGetOutcomes(k) :
            LET l == [l0 EXCEPT !.cres = out, !.miss = FromIdCacheMiss(out)]
            IN /\ IF out = "hit"
                  THEN Return(p, Nil, cache[k], [l EXCEPT !.e = cache[k]], loc)
                  ELSE Goto(p, "fromid_get", l, loc)
               /\ IF out = "error" THEN UseCacheFault ELSE faults' = faults
    /\ UNCHANGED <<store, cache, serial, opsLeft>>

\* a Get whose every result lets the caller go on
GetSucceededAlways(out) == TRUE

\* IsErrFieldMismatch(err) || err == nil
GetSucceeded(out) == out \in {"ok", "mismatch"}

\* should FromId update memcache after its datastore read?
FromIdFills(l) == l.miss /\ CacheTtl(l.key) > 0

\* datastore.Get(c, lookupKey, e)
FromIdGet(p) ==
    /\ pc[p] = "fromid_get"
    /\ LET k == loc[p].key
           l0 == Count(loc[p], "dget")
       IN \/ \E out \in StoreGetOutcomes(k) :
               /\ IF GetSucceeded(out)
                  THEN LET l == [l0 EXCEPT !.e = store[k].val]
                       IN IF FromIdFills(l)
                          THEN Goto(p, "fromid_set", l, loc)
                          ELSE Return(p, Nil, l.e, l, loc)
                  ELSE Return(p, "ErrNoSuchEntity", NoVal, l0, loc)
               /\ faults' = faults
          \/ \E err \in StoreErrs :
               /\ StoreFault
               /\ UseStoreFault
               /\ Return(p, err, NoVal, l0, loc)
    /\ UNCHANGED <<store, cache, serial, opsLeft>>

\* memcache.Set(c, item); its error is ignored
FromIdSet(p) ==
    /\ pc[p] = "fromid_set"
    /\ LET k == loc[p].key
           l == Count(loc[p], "cset")
       IN /\ \/ /\ cache' = [cache EXCEPT ![k] = l.e]
                /\ faults' = faults
             \/ /\ CacheFault
                /\ UseCacheFault
                /\ cache' = cache
          /\ Return(p, Nil, l.e, l, loc)
    /\ UNCHANGED <<store, serial, opsLeft>>

\* ----------------------------------------------------------- ClearCache

\* a ClearCache that returns the cache miss to its caller
ClearCacheErrOnMiss(out) ==
    IF out = "error" THEN "CacheFault" ELSE IF out = "miss" THEN "ErrCacheMiss" ELSE Nil

\* the error ClearCache returns for an outcome of memcache.Delete:
\* nil and ErrCacheMiss are success, anything else is returned
ClearCacheErr(out) == IF out = "error" THEN "CacheFault" ELSE Nil

\* memcache.Delete(c, Key(c, e).String()) with outcome out
CacheDelete(k, out) ==
    /\ cache' = IF out = "ok" THEN [cache EXCEPT ![k] = NoVal] ELSE cache
    /\ IF out = "error" THEN UseCacheFault ELSE faults' = faults

BeginClearCache(p, k) == Start(p, "ClearCache", k, NoVal, "none", "clearcache")

\* ClearCache called by the application itself
ClearCache(p) ==
    /\ pc[p] = "clearcache"
    /\ LET k == loc[p].key
       IN IF ~canBeCached(k)
          THEN /\ Return(p, Nil, NoVal, loc[p], loc)
               /\ UNCHANGED <<cache, faults>>
          ELSE \E out \in CacheDeleteOutcomes(k) :
                 /\ CacheDelete(k, out)
                 /\ Return(p, ClearCacheErr(out), NoVal,
                           [Count(loc[p], "cdel") EXCEPT !.cres = out], loc)
    /\ UNCHANGED <<store, serial, opsLeft>>

\* ------------------------------------------------------------------ Put

BeginPut(p, k, v) == Start(p, "Put", k, v, "none", "put_store")

\* a Put that returns the error of ClearCache
PutResultSurfaced(cerr) == cerr

\* what Put returns once the datastore put has succeeded and ClearCache
\* has returned cerr: the error is logged, the key and nil are returned
PutResult(cerr) == Nil

\* datastore.Put(c, lookupKey, e)
PutStore(p) ==
    /\ pc[p] = "put_store"
    /\ LET k == loc[p].key
           l0 == Count(loc[p], "dput")
       IN \/ /\ store' = [store EXCEPT ![k] = Row(l0.e)]
             /\ serial' = [serial EXCEPT ![k] = Row(l0.e)]
             /\ faults' = faults
             /\ LET l == [l0 EXCEPT !.wrote = TRUE]
                IN IF canBeCached(k)
                   THEN Goto(p, "put_clear", l, Invalidated(k, p))
                   ELSE Return(p, PutResult(Nil), l.e, l, Invalidated(k, p))
          \/ \E err \in StoreErrs :
               /\ StoreFault
               /\ UseStoreFault
               /\ Return(p, err, l0.e, l0, loc)
               /\ UNCHANGED <<store, serial>>
    /\ UNCHANGED <<cache, opsLeft>>

\* ClearCache(c, e) inside Put
PutClear(p) ==
    /\ pc[p] = "put_clear"
    /\ LET k == loc[p].key
       IN \E out \in CacheDeleteOutcomes(k) :
            LET cerr == ClearCacheErr(out)
                l == [Count(loc[p], "cdel") EXCEPT !.cres = out, !.logged = (cerr # Nil)]
            IN /\ CacheDelete(k, out)
               /\ Return(p, PutResult(cerr), l.e, l, loc)
    /\ UNCHANGED <<store, serial, opsLeft>>

\* --------------------------------------------------------------- Delete

BeginDelete(p, k) ==
    Start(p, "Delete", k, NoVal, "none", IF canBeCached(k) THEN "delete_clear" ELSE "delete_store")

\* does Delete return after ClearCache returned cerr?
DeleteAborts(cerr) == cerr # Nil

\* ClearCache(c, e) inside Delete
DeleteClear(p) ==
    /\ pc[p] = "delete_clear"
    /\ LET k == loc[p].key
       IN \E out \in CacheDeleteOutcomes(k) :
            LET cerr == ClearCacheErr(out)
                l == [Count(loc[p], "cdel") EXCEPT !.cres = out]
            IN /\ CacheDelete(k, out)
               /\ IF DeleteAborts(cerr)
                  THEN Return(p, cerr, NoVal, l, loc)
                  ELSE Goto(p, "delete_store", l, loc)
    /\ UNCHANGED <<store, serial, opsLeft>>

\* datastore.Delete(c, lookupKey)
DeleteStore(p) ==
    /\ pc[p] = "delete_store"
    /\ LET k == loc[p].key
           l0 == Count(loc[p], "ddel")
       IN \/ /\ store' = [store EXCEPT ![k] = NoRow]
             /\ serial' = [serial EXCEPT ![k] = NoRow]
             /\ faults' = faults
             /\ Return(p, Nil, NoVal, [l0 EXCEPT !.wrote = TRUE], Invalidated(k, p))
          \/ \E err \in StoreErrs :
               /\ StoreFault
               /\ UseStoreFault
               /\ Return(p, err, NoVal, l0, loc)
               /\ UNCHANGED <<store, serial>>
    /\ UNCHANGED <<cache, opsLeft>>

\* --------------------------------------------------------------- Modify

BeginModify(p, k, f) == Start(p, "Modify", k, NoVal, f, "tx_get")

\* a Modify that goes on to ClearCache whatever the transaction returned
TxFailedIgnored(txerr) == FALSE

\* "did the transaction succeed?"
TxFailed(txerr) == txerr # Nil

\* Modify once RunInTransaction has returned txerr
ModifyAfterTx(p, txerr, l0, L) ==
    LET l == [l0 EXCEPT !.txerr = txerr]
    IN IF TxFailed(txerr)
       THEN Return(p, txerr, l.e, l, L)
       ELSE IF canBeCached(l.key)
            THEN Goto(p, "modify_clear", l, L)
            ELSE Return(p, Nil, l.e, l, L)

\* an attempt that puts the entity although f has failed
FAbortsNever(ferr) == FALSE

\* does the attempt stop once f has returned ferr?
FAborts(ferr) == ferr # Nil

\* One attempt of the function Modify hands to RunInTransaction:
\* IdempotentReset, datastore.Get, f, datastore.Put.  The put stays in
\* the transaction until it commits.
TxAttempt(p) ==
    /\ pc[p] = "tx_get"
    /\ LET k == loc[p].key
           l0 == Count([loc[p] EXCEPT !.e = NoVal, !.stale = FALSE, !.attempt = @ + 1], "dget")
           r == ApplyF(l0.f, store[k].val)
           l1 == [l0 EXCEPT !.e = r.val, !.ferr = r.err, !.fcalls = @ + 1]
       IN \/ \E out \in StoreGetOutcomes(k) :
               /\ faults' = faults
               /\ IF GetSucceeded(out)
                  THEN IF FAborts(r.err)
                       THEN ModifyAfterTx(p, r.err, l1, loc)
                       ELSE Goto(p, "tx_commit", Count(l1, "dput"), loc)
                  ELSE ModifyAfterTx(p, "ErrNoSuchEntity", l0, loc)
          \/ \E err \in StoreErrs :     \* datastore.Get fails
               /\ StoreFault
               /\ UseStoreFault
               /\ ModifyAfterTx(p, err, l0, loc)
          \/ \E err \in StoreErrs :     \* datastore.Put fails
               /\ StoreFault
               /\ store[k].exists /\ ~FAborts(r.err)
               /\ UseStoreFault
               /\ ModifyAfterTx(p, err, Count(l1, "dput"), loc)
    /\ UNCHANGED <<store, cache, serial, opsLeft>>

\* a transaction engine that never detects a conflict
TxConflictUndetected(l) == FALSE

\* has another writer changed the entity since this attempt read it?
TxConflict(l) == l.stale

\* the row a Modify with f leaves when it is applied to row
SerialModify(row, f) ==
    IF row.exists /\ ApplyF(f, row.val).err = Nil
    THEN Row(ApplyF(f, row.val).val) ELSE row

\* RunInTransaction commits the attempt, retries it, or gives up
TxCommit(p) ==
    /\ pc[p] = "tx_commit"
    /\ LET k == loc[p].key
           l == loc[p]
       IN \/ /\ TxConflict(l)
             /\ UNCHANGED <<store, serial, faults>>
             /\ IF l.attempt < MaxAttempts
                THEN Goto(p, "tx_get", l, loc)
                ELSE ModifyAfterTx(p, "ErrConcurrentTransaction", l, loc)
          \/ /\ ~TxConflict(l)
             /\ store' = [store EXCEPT ![k] = Row(l.e)]
             /\ serial' = [serial EXCEPT ![k] = SerialModify(store[k], l.f)]
             /\ faults' = faults
             /\ ModifyAfterTx(p, Nil, [l EXCEPT !.wrote = TRUE], Invalidated(k, p))
          \/ \E err \in StoreErrs :
               /\ StoreFault
               /\ UseStoreFault
               /\ UNCHANGED <<store, serial>>
               /\ ModifyAfterTx(p, err, l, loc)
    /\ UNCHANGED <<cache, opsLeft>>

\* what Modify returns once ClearCache has returned cerr
ModifyResult(cerr) == cerr

\* ClearCache(c, e) after the transaction (see Note_1)
ModifyClear(p) ==
    /\ pc[p] = "modify_clear"
    /\ LET k == loc[p].key
       IN \E out \in CacheDeleteOutcomes(k) :
            LET l == [Count(loc[p], "cdel") EXCEPT !.cres = out]
            IN /\ CacheDelete(k, out)
               /\ Return(p, ModifyResult(ClearCacheErr(out)), l.e, l, loc)
    /\ UNCHANGED <<store, serial, opsLeft>>

\* ------------------------------------------------------------- PutMulti

\* the entities a caller hands to PutMulti: a batch is a sequence of
\* entities with different keys
Entities == [key : DOMAIN store, val : Vals]

Batches ==
    {es \in UNION {[1..n -> Entities] : n \in 1..MaxBatch} :
        \A i, j \in DOMAIN es : i # j => es[i].key # es[j].key}

BatchKeys(es) == {es[j].key : j \in DOMAIN es}

BeginPutMulti(p, es) ==
    /\ pc[p] = "idle"
    /\ opsLeft > 0
    /\ opsLeft' = opsLeft - 1
    /\ pc' = [pc EXCEPT ![p] = "putmulti_store"]
    /\ loc' = [loc EXCEPT ![p] = [IdleLoc EXCEPT !.op = "PutMulti", !.es = es]]
    /\ UNCHANGED <<ttl, store, cache, last, serial, faults>>
    /\ UNCHANGED <<kvsVars, sequenceVars, attemptVars>>

\* the datastore once the entities of es with a key in S are written
Written(rows, es, S) ==
    [k \in DOMAIN rows |->
        IF k \in S THEN Row(es[CHOOSE j \in DOMAIN es : es[j].key = k].val)
                   ELSE rows[k]]

\* transactions in conflict once the keys in S are written
InvalidatedAll(S, p) ==
    [q \in Procs |->
        IF q # p /\ pc[q] = "tx_commit" /\ loc[q].key \in S
        THEN [loc[q] EXCEPT !.stale = TRUE] ELSE loc[q]]

\* datastore.PutMulti(c, keys, es): one call for the whole batch.  The
\* batch is not a transaction: a call that fails may have written some
\* of the entities.
PutMultiStore(p) ==
    /\ pc[p] = "putmulti_store"
    /\ LET es == loc[p].es
           l0 == Count(loc[p], "dput")
       IN \/ /\ store' = Written(store, es, BatchKeys(es))
             /\ serial' = Written(serial, es, BatchKeys(es))
             /\ faults' = faults
             /\ Goto(p, "putmulti_clear", [l0 EXCEPT !.wrote = TRUE],
                     InvalidatedAll(BatchKeys(es), p))
          \/ \E err \in StoreErrs, S \in SUBSET BatchKeys(es) :
               /\ StoreFault
               /\ UseStoreFault
               /\ store' = Written(store, es, S)
               /\ serial' = Written(serial, es, S)
               /\ Return(p, err, NoVal, [l0 EXCEPT !.derr = err, !.wrote = (S # {})],
                         InvalidatedAll(S, p))
    /\ UNCHANGED <<cache, opsLeft>>

\* a loop that ends at the first ClearCache error
PutMultiStopsAtError(cerr) == cerr = Nil

\* does the loop over the batch go on once ClearCache has returned cerr?
\* (the error is logged)
PutMultiContinues(cerr) == TRUE

\* one iteration of "for _, e := range es": ClearCache(c, e)
PutMultiClear(p) ==
    /\ pc[p] = "putmulti_clear"
    /\ LET l == loc[p]
           j == l.i + 1
           k == l.es[j].key
           After(l1, cerr) ==
               LET l2 == [l1 EXCEPT !.i = j,
                                    !.nfail = @ + (IF cerr # Nil THEN 1 ELSE 0),
                                    !.logged = @ \/ cerr # Nil]
               IN IF j = Len(l.es) \/ ~PutMultiContinues(cerr)
                  THEN Return(p, Nil, NoVal, l2, loc)
                  ELSE Goto(p, "putmulti_clear", l2, loc)
       IN IF ~canBeCached(k)
          THEN /\ After(l, Nil)
               /\ UNCHANGED <<cache, faults>>
          ELSE \E out \in CacheDeleteOutcomes(k) :
                 /\ CacheDelete(k, out)
                 /\ After([Count(l, "cdel") EXCEPT !.cres = out], ClearCacheErr(out))
    /\ UNCHANGED <<store, serial, opsLeft>>

\* ----------------------------------------------------------------- spec

\* a request for an entity with a key in K arrives at process p
BeginOn(p, K) ==
    \/ \E k \in K : BeginFromId(p, k)
    \/ \E k \in K : BeginClearCache(p, k)
    \/ \E k \in K, v \in Vals : BeginPut(p, k, v)
    \/ \E k \in K : BeginDelete(p, k)
    \/ \E k \in K, f \in Funcs : BeginModify(p, k, f)

\* a request arrives at process p
Begin(p) == BeginOn(p, Keys)

\* the operation of process p makes its next call
Step(p) ==
    \/ FromIdCache(p)
    \/ FromIdGet(p)
    \/ FromIdSet(p)
    \/ ClearCache(p)
    \/ PutStore(p)
    \/ PutClear(p)
    \/ DeleteClear(p)
    \/ DeleteStore(p)
    \/ TxAttempt(p)
    \/ TxCommit(p)
    \/ ModifyClear(p)

Next ==
    \/ \E p \in Procs : Begin(p)
    \/ \E p \in Procs : Step(p)
    \/ \E k \in Keys : Evict(k)

Spec == Init /\ [][Next]_vars

AllIdle == \A p \in Procs : pc[p] = "idle"

\* Requests served one after another: an operation starts only when no
\* other is running.
SeqNext ==
    \/ \E p \in Procs : AllIdle /\ Begin(p)
    \/ \E p \in Procs : Step(p)
    \/ \E k \in Keys : Evict(k)

SpecSeq == Init /\ [][SeqNext]_vars

\* The whole package, PutMulti included, over MultiKeys entities.
MultiKeys == 1..NMultiKeys

MultiInit ==
    /\ KvsUnused
    /\ SequenceUnused
    /\ AttemptUnused
    /\ ttl \in [MultiKeys -> {0, 1}]
    /\ store \in [MultiKeys -> {NoRow, Row(0)}]
    /\ cache = [k \in MultiKeys |-> NoVal]
    /\ pc = [p \in Procs |-> "idle"]
    /\ loc = [p \in Procs |-> IdleLoc]
    /\ last = NoLast
    /\ serial = store
    /\ opsLeft = MultiOps
    /\ faults = [cache |-> MaxCacheFaults, store |-> MaxStoreFaults]

MultiNext ==
    \/ \E p \in Procs : BeginOn(p, MultiKeys)
    \/ \E p \in Procs, es \in Batches : BeginPutMulti(p, es)
    \/ \E p \in Procs : Step(p)
    \/ \E p \in Procs : PutMultiStore(p)
    \/ \E p \in Procs : PutMultiClear(p)
    \/ \E k \in MultiKeys : Evict(k)

SpecMulti == MultiInit /\ [][MultiNext]_vars

NoCacheFaultYet == faults.cache = MaxCacheFaults

\* the entity under key k declares a non-zero cache TTL
Cacheable(k) == ttl[k] > 0

\* ---------------------------------------------------------------- claims

\* C1: Modify is atomic against concurrent writers of the same key.  Every
\* commit of a Modify leaves the durable row equal to its mutation function
\* applied to the row current at that commit, so the datastore always holds
\* what applying the committed writes one after another leaves: no update
\* is lost.
C1_ModifyAtomic == \A k \in Keys : store[k] = serial[k]

\* Two concurrent increments of a row holding 0: the second to commit was
\* retried after a conflict, and the row holds 2.
C1_Witness ==
    /\ opsLeft = MaxOps - 2
    /\ last.op = "Modify" /\ last.f = "inc" /\ last.err = Nil /\ last.attempt = 2
    /\ store[last.key] = Row(2)
    /\ \E q \in Procs : /\ pc[q] = "modify_clear"
                         /\ loc[q].f = "inc" /\ loc[q].key = last.key

\* C2: once the writer's cache invalidation has completed and every
\* concurrent FromId has returned, the cache entry of the key is absent or
\* equal to the committed durable value.
C2_StalenessBounded ==
    (AllIdle /\ NoCacheFaultYet) =>
        \A k \in Keys :
            (store[k].exists /\ cache[k] # NoVal) => cache[k] = store[k].val

\* a step of Put leaves every cache entry as it is or removes it
PutNeverFillsCache ==
    (\E p \in Procs : pc[p] \in {"put_store", "put_clear"} /\ pc'[p] # pc[p]) =>
        \A k \in Keys : cache'[k] \in {cache[k], NoVal}

TxErrs == StoreErrs \cup {"ErrConcurrentTransaction"}

\* C4: if Modify's transaction fails, Modify returns that error, has not
\* changed the durable row and has issued no cache delete.
C4_TxFailureNoEffect ==
    (last.op = "Modify" /\ last.txerr \in TxErrs) =>
        /\ last.err = last.txerr
        /\ ~last.wrote
        /\ last.io.cdel = 0

\* a Modify gave up after MaxAttempts conflicting attempts
C4_Witness ==
    /\ last.op = "Modify" /\ last.err = "ErrConcurrentTransaction"
    /\ last.attempt = MaxAttempts /\ last.io.dput = MaxAttempts

\* C5: if the mutation function returns an error, no durable put is issued,
\* nothing is committed, Modify returns exactly that error, and Modify
\* touches neither the durable row nor the cache entry.
C5_MutationErrorVerbatim ==
    (last.op = "Modify" /\ last.ferr # Nil) =>
        /\ last.err = last.ferr
        /\ ~last.wrote
        /\ last.io.dput = last.attempt - 1
        /\ last.io.cdel = 0 /\ last.io.cset = 0

\* f accepted the value read by the first attempt and rejected the value
\* read by the retry
C5_Witness ==
    /\ last.op = "Modify" /\ last.ferr # Nil /\ last.err = last.ferr
    /\ last.attempt = 2

\* C6: a Delete of a cacheable entity whose cache invalidation fails (with
\* an error other than cache miss) still deletes the entity from the
\* datastore, and returns the cache error.
C6_DeleteDespiteCacheFault ==
    (last.op = "Delete" /\ last.cres = "error") =>
        /\ last.io.ddel = 1
        /\ last.err = "CacheFault"

\* C7 (as stated): when Put has committed its datastore put and the cache
\* invalidation then fails, Put returns an error, and the put is not
\* rolled back.
C7_InvalidationFailureReturned ==
    (last.op = "Put" /\ last.wrote /\ last.cres = "error") =>
        /\ last.err # Nil
        /\ last.io.dput = 1 /\ last.io.ddel = 0

\* C7 (amended): the failure is logged and Put returns success; the put
\* is not rolled back.
C7_InvalidationFailureLogged ==
    (last.op = "Put" /\ last.wrote /\ last.cres = "error") =>
        /\ last.err = Nil /\ last.logged
        /\ last.io.dput = 1 /\ last.io.ddel = 0

\* Put has returned after a failed invalidation, and the row it put is in
\* the datastore while the cache still holds another value
C7_Witness ==
    /\ last.op = "Put" /\ last.cres = "error" /\ last.logged /\ AllIdle
    /\ store[last.key] = Row(last.val)
    /\ cache[last.key] \notin {NoVal, last.val}

\* C8: whenever Modify's transaction commits, Modify returns success, so an
\* error returned by Modify means this call did not change the durable row.
C8_ModifyErrorMeansNoChange ==
    (last.op = "Modify" /\ last.err # Nil) => ~last.wrote

\* C9: once a successful Delete of a cacheable key and every FromId
\* concurrent with it have returned, neither the datastore nor the cache
\* holds the key.
C9_DeleteRemovesBothTiers ==
    (/\ AllIdle /\ NoCacheFaultYet
     /\ last.op = "Delete" /\ last.err = Nil /\ Cacheable(last.key)) =>
        /\ ~store[last.key].exists
        /\ cache[last.key] = NoVal

\* C10 (as stated): ClearCache never returns an error.
C10_ClearCacheNeverFails == last.op = "ClearCache" => last.err = Nil

\* C10 (amended): ClearCache returns an error only when memcache.Delete
\* failed with an error other than cache miss; a miss is success; and as
\* long as only ClearCache is called after a ClearCache that returned
\* success, the cache holds no entry for the key.
C10_ClearCacheIdempotent ==
    (last.op = "ClearCache" /\ Cacheable(last.key)) =>
        /\ last.err # Nil => last.cres = "error"
        /\ last.cres = "miss" => last.err = Nil
        /\ (/\ last.err = Nil
            /\ \A p \in Procs : pc[p] \in {"idle", "clearcache"})
           => cache[last.key] = NoVal

\* the second of two ClearCache calls in a row found the entry already
\* absent and returned success
C10_Witness ==
    /\ last.op = "ClearCache" /\ last.prev = "ClearCache" /\ Cacheable(last.key)
    /\ last.cres = "miss" /\ last.err = Nil

\* C11 (as stated): a FromId of a cacheable entity whose cache lookup did
\* not hit, by a miss or by a cache error, and that returned success has
\* read the datastore once, returns the value read, and has issued one
\* memcache.Set for it.
C11_FillAfterMissOrError ==
    (/\ last.op = "FromId" /\ Cacheable(last.key)
     /\ last.cres \in {"miss", "error"} /\ last.err = Nil) =>
        /\ last.io.dget = 1
        /\ last.io.cset = 1

\* C11 (amended): after a miss FromId reads the datastore and issues one
\* memcache.Set; after a cache error it reads the datastore and issues no
\* memcache.Set.  While FromId is about to issue the Set, the entity it
\* will store and return is the value it read.
C11_FillAfterMissOnly ==
    /\ (/\ last.op = "FromId" /\ Cacheable(last.key)
        /\ last.cres \in {"miss", "error"} /\ last.err = Nil) =>
           /\ last.io.dget = 1
           /\ last.io.cset = (IF last.cres = "miss" THEN 1 ELSE 0)
           /\ last.val # NoVal
    /\ \A p \in Procs :
           pc[p] = "fromid_set" => loc[p].cres = "miss" /\ loc[p].e # NoVal

\* a FromId whose memcache.Get failed returned the row of the datastore
\* and left the cache empty
C11_Witness ==
    /\ last.op = "FromId" /\ Cacheable(last.key) /\ last.cres = "error"
    /\ last.err = Nil /\ AllIdle
    /\ store[last.key] = Row(last.val)
    /\ cache[last.key] = NoVal
    /\ last.io.cset = 0

\* entities of the batch es that declare a cache TTL
CacheableCount(es) == Cardinality({j \in DOMAIN es : Cacheable(es[j].key)})

\* C12: when datastore.PutMulti fails, PutMulti returns its error and has
\* called ClearCache for none of the entities (no cache delete issued);
\* when it succeeds, PutMulti calls ClearCache for every entity of the
\* batch (one cache delete per cacheable entity), whatever the number of
\* invalidations that failed, and returns success.
C12_BatchInvalidation ==
    last.op = "PutMulti" =>
        /\ last.io.dput = 1
        /\ last.derr # Nil =>
              /\ last.err = last.derr
              /\ last.i = 0 /\ last.io.cdel = 0 /\ last.nfail = 0
        /\ last.derr = Nil =>
              /\ last.err = Nil /\ last.wrote
              /\ last.i = Len(last.es)
              /\ last.io.cdel = CacheableCount(last.es)
              /\ last.nfail <= last.io.cdel

\* a batch of two cached entities: the invalidation of the first failed,
\* the second was invalidated, PutMulti returned success
C12_Witness ==
    /\ last.op = "PutMulti" /\ last.err = Nil /\ AllIdle
    /\ Len(last.es) = 2 /\ last.nfail = 1 /\ last.io.cdel = 2
    /\ last.cres = "ok"
    /\ cache[last.es[2].key] = NoVal
    /\ store[last.es[1].key] = Row(last.es[1].val)
    /\ store[last.es[2].key] = Row(last.es[2].val)

\* ================================================================== kvs
\* Package kvs: key-value pairs with an expiration, in the datastore (kind
\* "kvs") and in memcache.

\* ------------------------------------------------------------ kvs: bounds
MaxTime == 4
NKvKeys == 1
NKvVals == 2
MaxTtl == 1
KvOps == 3
\* the sweep: rows of the table, sweeps, page size (400 in the code) and
\* the defaults of GC.Ttl (50 s) and GC.Leeway (24 h) in clock ticks
NGcKeys == 4
GcOps == 2
limit == 2
DefaultGcTtl == 2
DefaultLeeway == 1

KvVals == 1..NKvVals

\* ------------------------------------------------------------- kvs: tiers

NoKv == [exists |-> FALSE, val |-> NoVal, expires |-> 0]
KvRow(v, e) == [exists |-> TRUE, val |-> v, expires |-> e]

\* memcache entry: exp is the time at which memcache drops it, 0 for never
NoEntry == [val |-> NoVal, exp |-> 0]

\* a key with no entry in the index on Expires
NoIdx == 0 - 1

\* the index entry of a row
IndexOf(row) == IF row.exists THEN row.expires ELSE NoIdx

\* time passes
Tick ==
    /\ now < MaxTime
    /\ now' = now + 1
    /\ UNCHANGED <<kvStore, kvIndex, kvCache, kv, kvLast, kvPut, gc>>
    /\ UNCHANGED <<aedsVars, sequenceVars, attemptVars, opsLeft, faults>>

\* the index catches up with the row of key k
IndexSync(k) ==
    /\ kvIndex[k] # IndexOf(kvStore[k])
    /\ kvIndex' = [kvIndex EXCEPT ![k] = IndexOf(kvStore[k])]
    /\ UNCHANGED <<now, kvStore, kvCache, kv, kvLast, kvPut, gc>>
    /\ UNCHANGED <<aedsVars, sequenceVars, attemptVars, opsLeft, faults>>

\* memcache evicts the entry of key k
KvEvict(k) ==
    /\ kvCache[k] # NoEntry
    /\ kvCache' = [kvCache EXCEPT ![k] = NoEntry]
    /\ UNCHANGED <<now, kvStore, kvIndex, kv, kvLast, kvPut, gc>>
    /\ UNCHANGED <<aedsVars, sequenceVars, attemptVars, opsLeft, faults>>

\* does memcache still hold an entry for k?
CacheLive(k) ==
    /\ kvCache[k].val # NoVal
    /\ kvCache[k].exp = 0 \/ now < kvCache[k].exp

\* memcache.Set of an item with value v and Expiration d: a zero
\* Expiration means the item has no expiration time
ItemSet(k, v, d) ==
    [kvCache EXCEPT ![k] = [val |-> v, exp |-> IF d > 0 THEN now + d ELSE 0]]

\* --------------------------------------------------------- kvs: requests

KvIdle ==
    [pc |-> "idle", op |-> "none", key |-> 0, val |-> NoVal, ttl |-> 0,
     expires |-> 0, d |-> 0, start |-> 0, expired |-> FALSE, cres |-> "none"]

NoKvLast ==
    [op |-> "none", key |-> 0, err |-> Nil, val |-> NoVal, ttl |-> 0,
     expires |-> 0, expired |-> FALSE, cres |-> "none"]

\* no pair stored by a Put with a Ttl
NoPut == [val |-> NoVal, expires |-> 0]

KvAllIdle == \A p \in DOMAIN kv : kv[p].pc = "idle"

KvStart(p, op, k, v, t, e, next) ==
    /\ kv[p].pc = "idle"
    /\ opsLeft > 0
    /\ opsLeft' = opsLeft - 1
    /\ kv' = [kv EXCEPT ![p] = [KvIdle EXCEPT !.pc = next, !.op = op, !.key = k,
                                            !.val = v, !.ttl = t, !.expires = e,
                                            !.start = now]]
    /\ UNCHANGED <<now, kvStore, kvIndex, kvCache, kvLast, kvPut, gc, faults>>
    /\ UNCHANGED <<aedsVars, sequenceVars, attemptVars>>

\* the request of p, with locals l, returns err (and Find the value val)
KvReturn(p, err, val, l) ==
    /\ kv' = [kv EXCEPT ![p] = KvIdle]
    /\ kvLast' = [op |-> l.op, key |-> l.key, err |-> err, val |-> val,
                  ttl |-> l.ttl, expires |-> l.expires,
                  expired |-> l.expired, cres |-> l.cres]
    /\ kvPut' = IF err # Nil \/ l.op = "Find" THEN kvPut
                ELSE IF l.op = "Put" /\ l.ttl > 0
                     THEN [kvPut EXCEPT ![l.key] = [val |-> l.val, expires |-> l.expires]]
                     ELSE [kvPut EXCEPT ![l.key] = NoPut]
    /\ UNCHANGED <<now, gc, opsLeft>>
    /\ UNCHANGED <<aedsVars, sequenceVars, attemptVars>>

KvGoto(p, next, l) ==
    /\ kv' = [kv EXCEPT ![p] = [l EXCEPT !.pc = next]]
    /\ UNCHANGED <<now, kvLast, kvPut, gc, opsLeft>>
    /\ UNCHANGED <<aedsVars, sequenceVars, attemptVars>>

\* ------------------------------------------------------------ kvs: Put

\* explicit Expires a caller sets when it gives no Ttl
GivenExpires == {0, MaxTime}

KvBeginPut(p, k, v, t, e) == KvStart(p, "Put", k, v, t, e, "kvput_store")

\* kv.memcacheItem(): the item's Expiration and the standardized Expires
MemcacheItem(l) ==
    IF l.ttl > 0 THEN [l EXCEPT !.d = l.ttl, !.expires = now + l.ttl]
    ELSE IF l.expires # 0 THEN [l EXCEPT !.d = l.expires - now]
    ELSE [l EXCEPT !.d = 0]

\* item := kv.memcacheItem(); datastore.Put(c, kv.datastoreKey(c), kv)
KvPutStore(p) ==
    /\ kv[p].pc = "kvput_store"
    /\ LET l == MemcacheItem(kv[p])
       IN \/ /\ kvStore' = [kvStore EXCEPT ![l.key] = KvRow(l.val, l.expires)]
             /\ faults' = faults
             /\ KvGoto(p, "kvput_cache", l)
          \/ \E err \in StoreErrs :
               /\ StoreFault
               /\ UseStoreFault
               /\ kvStore' = kvStore
               /\ KvReturn(p, err, NoVal, l)
    /\ UNCHANGED <<kvIndex, kvCache>>

\* memcache.Set(c, item); its error is ignored
KvPutCache(p) ==
    /\ kv[p].pc = "kvput_cache"
    /\ LET l == kv[p]
       IN /\ \/ /\ kvCache' = ItemSet(l.key, l.val, l.d)
                /\ faults' = faults
             \/ /\ CacheFault
                /\ UseCacheFault
                /\ kvCache' = kvCache
          /\ KvReturn(p, Nil, NoVal, l)
    /\ UNCHANGED <<kvStore, kvIndex>>

\* ----------------------------------------------------------- kvs: Find

KvBeginFind(p, k) == KvStart(p, "Find", k, NoVal, 0, 0, "kvfind_cache")

\* memcache.Get(c, memcacheKey)
KvFindCache(p) ==
    /\ kv[p].pc = "kvfind_cache"
    /\ LET l == kv[p]
       IN \/ /\ CacheLive(l.key)
             /\ faults' = faults
             /\ KvReturn(p, Nil, kvCache[l.key].val, [l EXCEPT !.cres = "hit"])
          \/ /\ ~CacheLive(l.key)
             /\ faults' = faults
             /\ KvGoto(p, "kvfind_get", [l EXCEPT !.cres = "miss"])
          \/ /\ CacheFault
             /\ UseCacheFault
             /\ KvGoto(p, "kvfind_get", [l EXCEPT !.cres = "error"])
    /\ UNCHANGED <<kvStore, kvIndex, kvCache>>

\* kv.isExpired() of a row
isExpired(row) == row.expires # 0 /\ row.expires < now

\* datastore.Get(c, key, kv), isExpired, and the item for memcache
KvFindGet(p) ==
    /\ kv[p].pc = "kvfind_get"
    /\ LET l == kv[p]
           row == kvStore[l.key]
       IN \/ /\ faults' = faults
             /\ IF ~row.exists
                THEN KvReturn(p, "NotFound", NoVal, l)
                ELSE IF isExpired(row)
                THEN KvReturn(p, "NotFound", NoVal,
                              [l EXCEPT !.expired = TRUE, !.expires = row.expires])
                ELSE KvGoto(p, "kvfind_set",
                            [l EXCEPT !.val = row.val, !.expires = row.expires,
                                      !.d = IF row.expires # 0
                                            THEN row.expires - now ELSE 0])
          \/ \E err \in StoreErrs :
               /\ StoreFault
               /\ UseStoreFault
               /\ KvReturn(p, err, NoVal, l)
    /\ UNCHANGED <<kvStore, kvIndex, kvCache>>

\* memcache.Set(c, item); its error is ignored
KvFindSet(p) ==
    /\ kv[p].pc = "kvfind_set"
    /\ LET l == kv[p]
       IN /\ \/ /\ kvCache' = ItemSet(l.key, l.val, l.d)
                /\ faults' = faults
             \/ /\ CacheFault
                /\ UseCacheFault
                /\ kvCache' = kvCache
          /\ KvReturn(p, Nil, l.val, l)
    /\ UNCHANGED <<kvStore, kvIndex>>

\* --------------------------------------------------------- kvs: Delete

KvBeginDelete(p, k) == KvStart(p, "Delete", k, NoVal, 0, 0, "kvdel_store")

\* datastore.Delete(c, kv.datastoreKey(c))
KvDeleteStore(p) ==
    /\ kv[p].pc = "kvdel_store"
    /\ LET l == kv[p]
       IN \/ /\ kvStore' = [kvStore EXCEPT ![l.key] = NoKv]
             /\ faults' = faults
             /\ KvGoto(p, "kvdel_cache", l)
          \/ \E err \in StoreErrs :
               /\ StoreFault
               /\ UseStoreFault
               /\ kvStore' = kvStore
               /\ KvReturn(p, err, NoVal, l)
    /\ UNCHANGED <<kvIndex, kvCache>>

\* memcache.Delete(c, memKey(kv.Key)); its error is ignored
KvDeleteCache(p) ==
    /\ kv[p].pc = "kvdel_cache"
    /\ LET l == kv[p]
       IN /\ \/ /\ kvCache' = [kvCache EXCEPT ![l.key] = NoEntry]
                /\ faults' = faults
             \/ /\ CacheFault
                /\ UseCacheFault
                /\ kvCache' = kvCache
          /\ KvReturn(p, Nil, NoVal, l)
    /\ UNCHANGED <<kvStore, kvIndex>>
\* ------------------------------------------------- kvs: CollectGarbage

\* GC.Ttl and GC.Leeway a caller passes (0: not set)
GcBudgets == {0 - 1, 0, 1}
GcLeeways == {0, 1}

\* queries one sweep is followed through
MaxQueries == 8

\* the cursor of a query that has not run, and the zero Cursor{}
StartCursor == 0 - 1

GcIdle ==
    [pc |-> "idle", budget |-> 0, leeway |-> 0, quittingTime |-> 0, cutOff |-> 0,
     n |-> 0, cursor |-> StartCursor, badCursor |-> FALSE, keys |-> {},
     pending |-> Nil, err |-> Nil,
     \* history of the sweep
     start |-> 0, checks |-> 0, inTime |-> TRUE, queries |-> 0, deletes |-> 0,
     storeErr |-> Nil, afterErr |-> 0, fresh |-> TRUE, rows0 |-> <<>>,
     eligible0 |-> {}, removed |-> {}, zeroDeleted |-> FALSE]

\* a sweep that takes GC.Ttl as it is given
GcTtlAsGiven(b) == b

\* opts.Ttl once its default is applied
GcTtlOrDefault(b) == IF b = 0 THEN DefaultGcTtl ELSE b

\* opts.Leeway once its default is applied
LeewayOrDefault(lw) == IF lw = 0 THEN DefaultLeeway ELSE lw

\* is the index on Expires up to date with the rows?
IndexFresh == \A k \in DOMAIN kvStore : kvIndex[k] = IndexOf(kvStore[k])

GcBegin(b, lw) ==
    /\ gc.pc \in {"idle", "done"}
    /\ opsLeft > 0
    /\ opsLeft' = opsLeft - 1
    /\ gc' = [GcIdle EXCEPT !.pc = "check", !.budget = b, !.leeway = lw,
                            !.quittingTime = now + GcTtlOrDefault(b),
                            !.cutOff = now - LeewayOrDefault(lw),
                            !.start = now, !.fresh = IndexFresh, !.rows0 = kvStore,
                            !.eligible0 = {k \in DOMAIN kvStore :
                                             /\ kvStore[k].exists
                                             /\ kvStore[k].expires < now - LeewayOrDefault(lw)}]
    /\ UNCHANGED <<now, kvStore, kvIndex, kvCache, kv, kvLast, kvPut, faults>>
    /\ UNCHANGED <<aedsVars, sequenceVars, attemptVars>>

\* CollectGarbage returns (g.n, err); its locals are gone
GcReturn(g, err) ==
    gc' = [g EXCEPT !.pc = "done", !.err = err, !.quittingTime = 0, !.cutOff = 0,
                    !.start = 0, !.cursor = StartCursor, !.badCursor = FALSE,
                    !.keys = {}, !.pending = Nil]

\* a sweep whose deadline never trips
GcNeverTimedOut(g) == FALSE

\* time.Now().After(quittingTime)
GcTimedOut(g) == now > g.quittingTime

\* the deadline check at the head of the loop
GcCheck ==
    /\ gc.pc = "check"
    /\ LET g == [gc EXCEPT !.afterErr = @ + (IF gc.storeErr # Nil THEN 1 ELSE 0)]
       IN IF GcTimedOut(g)
          THEN GcReturn([g EXCEPT !.checks = @ + 1], "CollectGarbageTimeout")
          ELSE gc' = [g EXCEPT !.pc = "query", !.checks = @ + 1,
                               !.inTime = @ /\ now <= g.quittingTime]
    /\ UNCHANGED <<now, kvStore, kvIndex, kvCache, kv, kvLast, kvPut>>
    /\ UNCHANGED <<aedsVars, sequenceVars, attemptVars, opsLeft, faults>>

\* place of the index entry of k in the order of the query: by Expires,
\* then by key
Pos(k) == kvIndex[k] * (Cardinality(DOMAIN kvIndex) + 1) + k

\* index entries the query matches after cursor c: Filter("Expires<", cutOff)
Matches(c) ==
    {k \in DOMAIN kvIndex : kvIndex[k] # NoIdx /\ kvIndex[k] < gc.cutOff /\ Pos(k) > c}

\* the first j of them: Order("Expires"), Limit(limit)
FirstOf(S, j) == {k \in S : Cardinality({i \in S : Pos(i) < Pos(k)}) < j}

Page(c) == FirstOf(Matches(c), limit)

\* the cursor after the keys K of a page read from cursor c
PageEnd(c, K) == IF K = {} THEN c ELSE Pos(CHOOSE k \in K : \A i \in K : Pos(i) <= Pos(k))

\* a sweep that runs every query from the start
QueryFromStart(g) == StartCursor

\* where the query of this iteration starts: q = q.Start(cursor)
QueryStart(g) == g.cursor

\* getAllKeys(c, q) has returned into g: CollectGarbage goes on to
\* DeleteMulti if it got keys, else returns the error or leaves the loop
GcAfterQuery(g) ==
    IF g.keys # {} THEN gc' = [g EXCEPT !.pc = "delete"]
    ELSE GcReturn(g, g.pending)

\* keys, cursor, err := getAllKeys(c, q)
GcQuery ==
    /\ gc.pc = "query"
    /\ gc.queries < MaxQueries
    /\ LET g == [gc EXCEPT !.queries = @ + 1]
           Run(c) ==
               \/ /\ faults' = faults
                  /\ GcAfterQuery([g EXCEPT !.keys = Page(c),
                                            !.cursor = PageEnd(c, Page(c)),
                                            !.badCursor = FALSE,
                                            !.pending = Nil])
               \* t.Next or t.Cursor fails: the keys read so far and Cursor{}
               \/ \E err \in StoreErrs, j \in 0..Cardinality(Page(c)) :
                    /\ StoreFault
                    /\ UseStoreFault
                    /\ GcAfterQuery([g EXCEPT !.keys = FirstOf(Page(c), j),
                                              !.cursor = StartCursor,
                                              !.badCursor = TRUE,
                                              !.pending = err,
                                              !.storeErr = IF @ = Nil THEN err ELSE @])
       IN IF gc.badCursor
          \* q.Start(Cursor{}): the query is rejected, or runs from the start
          THEN \/ /\ faults' = faults
                  /\ GcReturn([g EXCEPT !.keys = {}], "InvalidCursor")
               \/ Run(StartCursor)
          ELSE Run(QueryStart(gc))
    /\ UNCHANGED <<now, kvStore, kvIndex, kvCache, kv, kvLast, kvPut>>
    /\ UNCHANGED <<aedsVars, sequenceVars, attemptVars, opsLeft>>

\* the rows once the keys in S are deleted
Deleted(S) == [k \in DOMAIN kvStore |-> IF k \in S THEN NoKv ELSE kvStore[k]]

\* err = datastore.DeleteMulti(c, keys), and the rest of the iteration
GcDelete ==
    /\ gc.pc = "delete"
    /\ LET K == gc.keys
           g == [gc EXCEPT !.deletes = @ + 1]
           Gone(S) == {k \in S : kvStore[k].exists}
           Note(S) == [g EXCEPT !.removed = @ \cup Gone(S),
                                !.zeroDeleted = @ \/ \E k \in Gone(S) : kvStore[k].expires = 0]
       IN \/ /\ kvStore' = Deleted(K)
             /\ faults' = faults
             /\ LET g1 == [Note(K) EXCEPT !.n = @ + Cardinality(K), !.pending = Nil]
                IN IF Cardinality(K) < limit
                   THEN GcReturn(g1, Nil)
                   ELSE gc' = [g1 EXCEPT !.pc = "check"]
          \/ \E err \in StoreErrs, S \in SUBSET K :
               /\ StoreFault
               /\ UseStoreFault
               /\ kvStore' = Deleted(S)
               /\ GcReturn([Note(S) EXCEPT !.pending = Nil,
                                           !.storeErr = IF @ = Nil THEN err ELSE @], err)
    /\ UNCHANGED <<now, kvIndex, kvCache, kv, kvLast, kvPut>>
    /\ UNCHANGED <<aedsVars, sequenceVars, attemptVars, opsLeft>>

\* ------------------------------------------------------------ kvs: specs

\* no entity of package aeds is in use
AedsUnused ==
    /\ ttl = <<>> /\ store = <<>> /\ cache = <<>> /\ serial = <<>>
    /\ pc = <<>> /\ loc = <<>> /\ last = NoLast

KvKeys == 1..NKvKeys

KvInit ==
    /\ AedsUnused
    /\ SequenceUnused
    /\ AttemptUnused
    /\ now = 1
    /\ kvStore = [k \in KvKeys |-> NoKv]
    /\ kvIndex = [k \in KvKeys |-> NoIdx]
    /\ kvCache = [k \in KvKeys |-> NoEntry]
    /\ kv = [p \in Procs |-> KvIdle]
    /\ kvLast = NoKvLast
    /\ kvPut = [k \in KvKeys |-> NoPut]
    /\ gc = GcIdle
    /\ opsLeft = KvOps
    /\ faults = [cache |-> MaxCacheFaults, store |-> MaxStoreFaults]

\* a request arrives at process p
KvBegin(p) ==
    \/ \E k \in KvKeys, v \in KvVals, t \in 1..MaxTtl : KvBeginPut(p, k, v, t, 0)
    \/ \E k \in KvKeys, v \in KvVals, e \in GivenExpires : KvBeginPut(p, k, v, 0, e)
    \/ \E k \in KvKeys : KvBeginFind(p, k)
    \/ \E k \in KvKeys : KvBeginDelete(p, k)

\* the request of process p makes its next call
KvStep(p) ==
    \/ KvPutStore(p)
    \/ KvPutCache(p)
    \/ KvFindCache(p)
    \/ KvFindGet(p)
    \/ KvFindSet(p)
    \/ KvDeleteStore(p)
    \/ KvDeleteCache(p)

\* the running sweep goes on
GcRun ==
    \/ GcCheck
    \/ GcQuery
    \/ GcDelete

\* the sweep, started with any options
GcStep ==
    \/ \E b \in GcBudgets, lw \in GcLeeways : GcBegin(b, lw)
    \/ GcRun

\* the sweep as a job that calls CollectGarbage(c, nil)
GcJob ==
    \/ GcBegin(0, 0)
    \/ GcRun

\* what goes on around the requests: the clock, the index, memcache
KvEnv ==
    \/ Tick
    \/ \E k \in KvKeys : IndexSync(k)
    \/ \E k \in KvKeys : KvEvict(k)

KvNext ==
    \/ \E p \in Procs : KvBegin(p)
    \/ \E p \in Procs : KvStep(p)
    \/ GcJob
    \/ KvEnv

SpecKvs == KvInit /\ [][KvNext]_vars

\* requests served one after another, the sweep and the clock running
\* beside them
KvSeqNext ==
    \/ \E p \in Procs : KvAllIdle /\ KvBegin(p)
    \/ \E p \in Procs : KvStep(p)
    \/ GcJob
    \/ KvEnv

SpecKvsSeq == KvInit /\ [][KvSeqNext]_vars

\* The sweep alone over a table of NGcKeys keys.
GcKeys == 1..NGcKeys
GcExpires == {0, 1, MaxTime - 1}
GcRows == {NoKv} \cup {KvRow(1, e) : e \in GcExpires}

GcInit ==
    /\ AedsUnused
    /\ SequenceUnused
    /\ AttemptUnused
    /\ now = MaxTime - 2
    /\ kvStore \in [GcKeys -> GcRows]
    /\ kvIndex = [k \in GcKeys |-> IndexOf(kvStore[k])]
    /\ kvCache = [k \in GcKeys |-> NoEntry]
    /\ kv = <<>>
    /\ kvLast = NoKvLast
    /\ kvPut = <<>>
    /\ gc = GcIdle
    /\ opsLeft = GcOps
    /\ faults = [cache |-> 0, store |-> MaxStoreFaults]

GcNext ==
    \/ GcStep
    \/ Tick
    \/ \E k \in GcKeys : IndexSync(k)

SpecGc == GcInit /\ [][GcNext]_vars

\* -------------------------------------------------------- kvs: claims

GcRunning == gc.pc \in {"check", "query", "delete"}
GcDone == gc.pc = "done"

C14_ZeroBudgetTimesOut ==
    (/\ GcDone /\ gc.budget = 0 /\ gc.eligible0 # {}
     /\ gc.fresh /\ gc.storeErr = Nil) =>
        /\ gc.err = "CollectGarbageTimeout"
        /\ gc.n = 0
        /\ gc.removed = {}

\* C14 (amended): a budget of 0 is replaced by the default budget; a sweep
\* whose budget is exceeded at its first deadline check, as it is for every
\* negative budget, returns CollectGarbageTimeout and the count 0 and has
\* issued no query and no delete.
C14_ExceededBudgetTimesOut ==
    /\ (GcRunning /\ gc.budget = 0) => gc.quittingTime = gc.start + DefaultGcTtl
    /\ (GcDone /\ gc.budget < 0) => gc.err = "CollectGarbageTimeout" /\ gc.checks = 1
    /\ (GcDone /\ gc.err = "CollectGarbageTimeout" /\ gc.checks = 1) =>
          /\ gc.n = 0 /\ gc.removed = {}
          /\ gc.queries = 0 /\ gc.deletes = 0
          /\ \A k \in DOMAIN kvStore : kvStore[k] = gc.rows0[k]

\* a sweep with a negative budget over a table with eligible rows timed
\* out at its first check and deleted nothing
C14_Witness ==
    /\ GcDone /\ gc.budget < 0 /\ gc.eligible0 # {}
    /\ gc.err = "CollectGarbageTimeout" /\ gc.n = 0
    /\ \A k \in gc.eligible0 : kvStore[k].exists

\* C15: every query and every batch delete of the sweep follows a deadline
\* check of the same iteration that found the deadline not passed; the
\* check that finds it passed ends the sweep with CollectGarbageTimeout
\* and the number of rows deleted so far, with no query or delete after it;
\* and the timeout is returned nowhere else.
C15_DeadlineCheckedBeforeEachBatch ==
    /\ gc.inTime
    /\ gc.pc = "check" => gc.checks = gc.queries
    /\ gc.pc = "query" => gc.checks = gc.queries + 1
    /\ gc.pc = "delete" => gc.checks = gc.queries /\ gc.deletes + 1 = gc.queries
    /\ GcDone =>
          IF gc.err = "CollectGarbageTimeout"
          THEN /\ gc.checks = gc.queries + 1
               /\ gc.deletes = gc.queries
               /\ (gc.fresh /\ gc.storeErr = Nil) => gc.n = Cardinality(gc.removed)
          ELSE gc.checks = gc.queries

\* the sweep deleted one full page, then found its deadline passed
C15_Witness ==
    /\ GcDone /\ gc.err = "CollectGarbageTimeout"
    /\ gc.checks = 2 /\ gc.n = limit /\ Cardinality(gc.removed) = limit
    /\ \E k \in gc.eligible0 : kvStore[k].exists

\* C17: once a datastore call of the sweep has failed, the sweep returns
\* that error and starts no further iteration.
C17_StoreErrorAborts ==
    (GcDone /\ gc.storeErr # Nil) =>
        /\ gc.err = gc.storeErr
        /\ gc.afterErr = 0

\* no fault has been injected so far
NoFaultYet == faults = [cache |-> MaxCacheFaults, store |-> MaxStoreFaults]

\* C16: a row whose Expires is the zero time never expires: Find never
\* answers NotFound because it found such a row expired, and no sweep
\* deletes such a row.
C16_ZeroExpirationNeverExpires ==
    /\ (kvLast.op = "Find" /\ kvLast.expired) => kvLast.expires # 0
    /\ ~gc.zeroDeleted

\* C18: for a pair stored by a Put with a Ttl, and with no fault of either
\* tier, a Find of the key that returns before the expiration time returns
\* the stored value, and a Find that starts after the expiration time
\* returns NotFound, through the cache or through the datastore, the row
\* swept or not.
C18_FindHonoursExpiration ==
    [][\A p \in DOMAIN kv :
         (/\ kv[p].op = "Find" /\ kv'[p].pc = "idle"
          /\ kvPut[kv[p].key] # NoPut
          /\ NoFaultYet /\ faults' = faults) =>
             LET put == kvPut[kv[p].key]
             IN /\ now < put.expires =>
                      kvLast'.err = Nil /\ kvLast'.val = put.val
                /\ kv[p].start > put.expires => kvLast'.err = "NotFound"]_vars

\* the memcache calls an operation has issued
NoCacheCall(io) == io.cget = 0 /\ io.cset = 0 /\ io.cdel = 0

\* the operation with locals l works on no entity that can be cached
OnUncacheable(l) ==
    IF l.op = "PutMulti"
    THEN \A j \in DOMAIN l.es : ~Cacheable(l.es[j].key)
    ELSE l.op # "none" /\ ~Cacheable(l.key)

\* C19: an entity whose cache TTL is zero is never cached. FromId, Put,
\* PutMulti, Delete, Modify and ClearCache on such an entity (for PutMulti: on
\* a batch of such entities) issue no memcache Get, Set or Delete, in flight
\* or when they return; a PutMulti of a mixed batch issues at most one
\* memcache.Delete per cacheable entity; no step of such an operation changes
\* memcache, and the memcache entry of such an entity stays empty forever.
C19_UncacheableNeverCached ==
    /\ [](/\ \A p \in Procs : OnUncacheable(loc[p]) => NoCacheCall(loc[p].io)
          /\ OnUncacheable(last) => NoCacheCall(last.io)
          /\ last.op = "PutMulti" =>
               /\ last.io.cget = 0 /\ last.io.cset = 0
               /\ last.io.cdel <= CacheableCount(last.es)
          /\ \A k \in DOMAIN cache : ~Cacheable(k) => cache[k] = NoVal)
    /\ [][\A p \in Procs :
            (OnUncacheable(loc[p]) /\ (pc'[p] # pc[p] \/ loc'[p] # loc[p]))
                => cache' = cache]_vars

\* a PutMulti of a batch with an uncacheable and a cacheable entity has
\* written both and invalidated only the cacheable one
C19_Witness ==
    /\ last.op = "PutMulti" /\ last.err = Nil /\ AllIdle
    /\ Len(last.es) = 2
    /\ ~Cacheable(last.es[1].key) /\ Cacheable(last.es[2].key)
    /\ last.io.cdel = 1
    /\ store[last.es[1].key] = Row(last.es[1].val)
    /\ cache[last.es[1].key] = NoVal

\* ================================================================ Sequence
\* Sequence (src/unnamed/part_000): a counter stored in one datastore row of
\* kind "sequences". Next is called inside a transaction that its caller
\* runs with datastore.RunInTransaction: the Put of Next takes effect when the
\* transaction commits, the commit fails with ErrConcurrentTransaction when
\* another transaction has committed a write to the row since this one read
\* it, and the function is then run again, MaxAttempts times at most.

\* calls of Next that may be started
SeqOps == 4

Starts == {0, 2}
Increments == {0 - 1, 1, 2}
Minimums == {0}
Maximums == {3}

\* the Sequence values a caller constructs
Sequences ==
    [Minimum : Minimums, Maximum : Maximums, Start : Starts, Increment : Increments]

\* the row of the sequence: absent, or a sequenceValue holding n
NoSequenceValue == [exists |-> FALSE, Value |-> 0]
sequenceValue(n) == [exists |-> TRUE, Value |-> n]

TxIdle ==
    [pc |-> "idle", n |-> 0, ok |-> FALSE, gerr |-> Nil, stale |-> FALSE, attempt |-> 0]

NoneAssigned == [vals |-> <<>>, swallowed |-> FALSE]

\* outcomes of datastore.Get(c, self.key(c), x)
SequenceGetOutcomes ==
    {IF sequences.exists THEN Nil ELSE "ErrNoSuchEntity"}
        \cup (IF StoreFault THEN StoreErrs ELSE {})

\* MaybeCurrent after datastore.Get has returned err: x is a new, zero
\* sequenceValue that only a successful Get fills in
MaybeCurrent(err) ==
    IF err = "ErrNoSuchEntity"
    THEN [n |-> 0, ok |-> FALSE]
    ELSE [n |-> IF err = Nil THEN sequences.Value ELSE 0, ok |-> TRUE]

\* the value Next computes from the result of MaybeCurrent
NextValue(cur) ==
    IF cur.ok THEN cur.n + sequence.Increment ELSE sequence.Start

\* the caller starts a transaction and calls Next in it
BeginTransaction(p) ==
    /\ tx[p].pc = "idle"
    /\ opsLeft > 0
    /\ opsLeft' = opsLeft - 1
    /\ tx' = [tx EXCEPT ![p] = [TxIdle EXCEPT !.pc = "get", !.attempt = 1]]
    /\ UNCHANGED <<sequence, sequences, assigned, faults>>
    /\ UNCHANGED <<aedsVars, kvsVars, attemptVars>>

\* n, ok := self.MaybeCurrent(c) and the choice of the next value
NextGet(p) ==
    /\ tx[p].pc = "get"
    /\ \E err \in SequenceGetOutcomes :
         LET cur == MaybeCurrent(err)
         IN /\ tx' = [tx EXCEPT ![p] = [@ EXCEPT !.pc = "put",
                                                 !.n = NextValue(cur),
                                                 !.ok = cur.ok,
                                                 !.gerr = IF err \in StoreErrs THEN err ELSE Nil,
                                                 !.stale = FALSE]]
            /\ IF err \in StoreErrs THEN UseStoreFault ELSE faults' = faults
    /\ UNCHANGED <<sequence, sequences, assigned, opsLeft>>
    /\ UNCHANGED <<aedsVars, kvsVars, attemptVars>>

\* datastore.Put(c, key, &x): buffered in the transaction, or an error that
\* makes Next panic, which ends the transaction without a commit
NextPut(p) ==
    /\ tx[p].pc = "put"
    /\ \/ /\ tx' = [tx EXCEPT ![p].pc = "commit"]
          /\ faults' = faults
       \/ /\ StoreFault
          /\ UseStoreFault
          /\ tx' = [tx EXCEPT ![p] = TxIdle]
    /\ UNCHANGED <<sequence, sequences, assigned, opsLeft>>
    /\ UNCHANGED <<aedsVars, kvsVars, attemptVars>>

\* the transactions that have read the row and not yet committed
Conflicting(T, p) ==
    [q \in DOMAIN T |->
        IF q # p /\ T[q].pc \in {"put", "commit"}
        THEN [T[q] EXCEPT !.stale = TRUE] ELSE T[q]]

\* Next has returned n and the transaction function returns: the commit
Commit(p) ==
    /\ tx[p].pc = "commit"
    /\ IF tx[p].stale
       THEN \* ErrConcurrentTransaction: run the function again, or give up
            /\ tx' = [tx EXCEPT ![p] = IF @.attempt < MaxAttempts
                                       THEN [@ EXCEPT !.pc = "get", !.attempt = @ + 1]
                                       ELSE TxIdle]
            /\ UNCHANGED <<sequences, assigned>>
       ELSE /\ sequences' = sequenceValue(tx[p].n)
            /\ assigned' = [vals |-> Append(assigned.vals, tx[p].n),
                            swallowed |-> assigned.swallowed \/ tx[p].gerr # Nil]
            /\ tx' = [Conflicting(tx, p) EXCEPT ![p] = TxIdle]
    /\ UNCHANGED <<sequence, opsLeft, faults>>
    /\ UNCHANGED <<aedsVars, kvsVars, attemptVars>>

SequenceInit ==
    /\ AedsUnused
    /\ KvsUnused
    /\ AttemptUnused
    /\ sequence \in Sequences
    /\ sequences = NoSequenceValue
    /\ tx = [p \in Procs |-> TxIdle]
    /\ assigned = NoneAssigned
    /\ opsLeft = SeqOps
    /\ faults = [cache |-> 0, store |-> MaxStoreFaults]

SequenceNext ==
    \/ \E p \in Procs : BeginTransaction(p)
    \/ \E p \in Procs : NextGet(p)
    \/ \E p \in Procs : NextPut(p)
    \/ \E p \in Procs : Commit(p)

SpecSequence == SequenceInit /\ [][SequenceNext]_vars

\* C20: the values Next returns to committed transactions are Start,
\* Start + Increment, Start + 2 * Increment, ... in commit order, so none is
\* returned twice, and the stored value is the last value returned (no row
\* before the first).
C20_AssignedSequentially ==
    LET vals == assigned.vals
    IN /\ \A i \in DOMAIN vals :
            vals[i] = sequence.Start + (i - 1) * sequence.Increment
       /\ \A i, j \in DOMAIN vals : i # j => vals[i] # vals[j]
       /\ sequences = IF vals = <<>> THEN NoSequenceValue
                                     ELSE sequenceValue(vals[Len(vals)])

\* n is a value the sequence is allowed to hold
InRange(n) == sequence.Minimum <= n /\ n <= sequence.Maximum

\* C21: every value that Next has stored in the datastore or returned to a
\* committed transaction lies between Minimum and Maximum inclusive (stated
\* for the runs in which every datastore.Get of Next succeeded).
C21_WithinMinimumMaximum ==
    ~assigned.swallowed =>
        /\ sequences.exists => InRange(sequences.Value)
        /\ \A i \in DOMAIN assigned.vals : InRange(assigned.vals[i])

\* ==================================================== Modify, step by step
\* The function Modify hands to datastore.RunInTransaction (aeds.go:517-545),
\* one step per statement, for an entity with a slice property.  The entity e
\* is the caller's object: it lives through all attempts of one call, a
\* datastore.Get into it appends the stored items to the slice (see
\* NeedsIdempotentReset), and f appends one more item.

\* calls of Modify that may be started
AttemptOps == 3
\* the longest slice f accepts
MaxItems == 4

\* what an entity type may implement
Declarations == [reset : BOOLEAN, getHook : BOOLEAN, putHook : BOOLEAN]

NoSlices == [exists |-> FALSE, items |-> <<>>]
Slices(s) == [exists |-> TRUE, items |-> s]

AttemptIdle ==
    [pc |-> "idle", e |-> <<>>, attempt |-> 0, stale |-> FALSE,
     steps |-> <<>>, read |-> <<>>, given |-> <<>>]

\* the calls an attempt makes, in the order of the function's text
StepOrder ==
    <<"IdempotentReset", "Get", "HookAfterGet", "f", "HookBeforePut", "Put">>

\* an IdempotentReset that leaves the slice as it is
IdempotentResetNever(e) == e

\* x.IdempotentReset(): the entity sets its slice length to 0
IdempotentReset(e) == <<>>

\* Modify(c, e, f) is called with an entity that carries only its id
ModifyBegin(p) ==
    /\ attempts[p].pc = "idle"
    /\ opsLeft > 0
    /\ opsLeft' = opsLeft - 1
    /\ attempts' = [attempts EXCEPT ![p] = [AttemptIdle EXCEPT !.pc = "reset", !.attempt = 1]]
    /\ UNCHANGED <<declares, slices, faults>>
    /\ UNCHANGED <<aedsVars, kvsVars, sequenceVars>>

\* the step of p leaves a as its state
AttemptStep(p, a) ==
    /\ attempts' = [attempts EXCEPT ![p] = a]
    /\ UNCHANGED <<declares, slices, opsLeft, faults>>
    /\ UNCHANGED <<aedsVars, kvsVars, sequenceVars>>

\* the transaction function returns an error and Modify returns it
AttemptFails(p) == AttemptStep(p, AttemptIdle)

\* if x, ok := e.(NeedsIdempotentReset); ok { x.IdempotentReset() }
StepReset(p) ==
    /\ attempts[p].pc = "reset"
    /\ LET a == attempts[p]
       IN AttemptStep(p, [a EXCEPT
              !.pc = "get",
              !.e = IF declares.reset THEN IdempotentReset(a.e) ELSE a.e,
              !.steps = IF declares.reset THEN <<"IdempotentReset">> ELSE <<>>,
              !.read = <<>>, !.given = <<>>, !.stale = FALSE])

\* err := datastore.Get(c, key, e)
StepGet(p) ==
    /\ attempts[p].pc = "get"
    /\ LET a == attempts[p]
       IN IF slices.exists
          THEN AttemptStep(p, [a EXCEPT !.pc = "afterget",
                                        !.e = a.e \o slices.items,
                                        !.read = slices.items,
                                        !.steps = Append(a.steps, "Get")])
          ELSE AttemptFails(p)

\* if x, ok := e.(HasGetHook); ok { x.HookAfterGet() }
StepAfterGet(p) ==
    /\ attempts[p].pc = "afterget"
    /\ LET a == attempts[p]
       IN AttemptStep(p, [a EXCEPT
              !.pc = "f",
              !.steps = IF declares.getHook THEN Append(a.steps, "HookAfterGet") ELSE a.steps])

\* err = f(e): f appends an item, or refuses a slice that is full
StepF(p) ==
    /\ attempts[p].pc = "f"
    /\ LET a == attempts[p]
       IN IF Len(a.e) >= MaxItems
          THEN AttemptFails(p)
          ELSE AttemptStep(p, [a EXCEPT !.pc = "beforeput",
                                        !.given = a.e,
                                        !.e = Append(a.e, p),
                                        !.steps = Append(a.steps, "f")])

\* if x, ok := e.(HasPutHook); ok { x.HookBeforePut() }
StepBeforePut(p) ==
    /\ attempts[p].pc = "beforeput"
    /\ LET a == attempts[p]
       IN AttemptStep(p, [a EXCEPT
              !.pc = "put",
              !.steps = IF declares.putHook THEN Append(a.steps, "HookBeforePut") ELSE a.steps])

\* _, err = datastore.Put(c, key, e): held in the transaction
StepPut(p) ==
    /\ attempts[p].pc = "put"
    /\ LET a == attempts[p]
       IN AttemptStep(p, [a EXCEPT !.pc = "commit", !.steps = Append(a.steps, "Put")])

\* the attempts of other calls that have read the row
AttemptsInvalidated(p) ==
    [q \in DOMAIN attempts |->
        IF q # p /\ attempts[q].pc \in {"afterget", "f", "beforeput", "put", "commit"}
        THEN [attempts[q] EXCEPT !.stale = TRUE] ELSE attempts[q]]

\* RunInTransaction commits the attempt, runs the function again, or gives up
StepCommit(p) ==
    /\ attempts[p].pc = "commit"
    /\ LET a == attempts[p]
       IN IF a.stale
          THEN AttemptStep(p, IF a.attempt < MaxAttempts
                              THEN [a EXCEPT !.pc = "reset", !.attempt = @ + 1]
                              ELSE AttemptIdle)
          ELSE /\ slices' = Slices(a.e)
               /\ attempts' = [AttemptsInvalidated(p) EXCEPT ![p] = AttemptIdle]
               /\ UNCHANGED <<declares, opsLeft, faults>>
               /\ UNCHANGED <<aedsVars, kvsVars, sequenceVars>>

AttemptInit ==
    /\ AedsUnused
    /\ KvsUnused
    /\ SequenceUnused
    /\ declares \in Declarations
    /\ slices \in {NoSlices, Slices(<<>>), Slices(<<0>>)}
    /\ attempts = [p \in Procs |-> AttemptIdle]
    /\ opsLeft = AttemptOps
    /\ faults = [cache |-> 0, store |-> 0]

AttemptNext ==
    \/ \E p \in Procs : ModifyBegin(p)
    \/ \E p \in Procs : StepReset(p)
    \/ \E p \in Procs : StepGet(p)
    \/ \E p \in Procs : StepAfterGet(p)
    \/ \E p \in Procs : StepF(p)
    \/ \E p \in Procs : StepBeforePut(p)
    \/ \E p \in Procs : StepPut(p)
    \/ \E p \in Procs : StepCommit(p)

SpecAttempt == AttemptInit /\ [][AttemptNext]_vars

\* does the entity implement the method, or is the call made for every entity?
Declared(name) ==
    CASE name = "IdempotentReset" -> declares.reset
      [] name = "HookAfterGet" -> declares.getHook
      [] name = "HookBeforePut" -> declares.putHook
      [] OTHER -> TRUE

\* the calls an attempt has made when it has gone through the first n
\* statements of the function
OrderUpTo(n) == SelectSeq(SubSeq(StepOrder, 1, n), Declared)

\* the calls made so far are the first ones of the order, none left out
InOrder(steps) == \E n \in 0..Len(StepOrder) : steps = OrderUpTo(n)

\* f has returned in the current attempt
FHasRun(a) == a.pc \in {"beforeput", "put", "commit"}

\* C22 as stated: every attempt makes its calls in the order IdempotentReset,
\* Get, HookAfterGet, f, HookBeforePut, Put, and the entity handed to f is
\* the stored value read in that attempt.
C22_AttemptOrderAndFreshValue ==
    \A p \in Procs :
        /\ InOrder(attempts[p].steps)
        /\ FHasRun(attempts[p]) => attempts[p].given = attempts[p].read

\* C22 amended: the order holds for every entity; the entity handed to f is
\* the stored value read in that attempt in the first attempt, and in a retry
\* when the entity declares IdempotentReset.
C22_FreshValueWithReset ==
    \A p \in Procs :
        /\ InOrder(attempts[p].steps)
        /\ (FHasRun(attempts[p]) /\ (declares.reset \/ attempts[p].attempt = 1))
              => attempts[p].given = attempts[p].read

\* a retry of an entity with IdempotentReset and both hooks has made all six
\* calls; its f was handed the row the other call committed in between
C22_Witness ==
    \E p \in Procs :
        /\ declares.reset /\ declares.getHook /\ declares.putHook
        /\ attempts[p].pc = "commit" /\ attempts[p].attempt = 2
        /\ attempts[p].steps = StepOrder
        /\ attempts[p].read # <<>>
        /\ attempts[p].given = slices.items
        /\ ~attempts[p].stale

\* p is inside the function Modify has handed to RunInTransaction
InTransaction(p) == pc[p] \in {"tx_get", "tx_commit"}

\* C23 as stated: a Modify whose transaction has committed has issued
\* exactly one memcache.Delete, and no other memcache call.
C23_OneCacheDeleteAfterCommit ==
    (last.op = "Modify" /\ last.txerr = Nil) =>
        last.io.cdel = 1 /\ last.io.cget = 0 /\ last.io.cset = 0

\* C23 amended: a Modify whose transaction has committed has issued exactly
\* one memcache.Delete if the entity can be cached and none if it cannot,
\* whatever the number of attempts; while a Modify is inside its transaction
\* it has issued no memcache call, and its steps leave memcache unchanged.
C23_OneCacheDeleteIfCacheable ==
    /\ []((last.op = "Modify" /\ last.txerr = Nil) =>
             /\ last.wrote
             /\ last.io.cdel = (IF Cacheable(last.key) THEN 1 ELSE 0)
             /\ last.io.cget = 0 /\ last.io.cset = 0)
    /\ [](\A p \in Procs : InTransaction(p) => NoCacheCall(loc[p].io))
    /\ [][\A p \in Procs :
            (InTransaction(p) /\ (pc'[p] # pc[p] \/ loc'[p] # loc[p]))
                => cache' = cache]_vars

\* a Modify of a cacheable entity has committed at its second attempt and
\* has then deleted the entry that was in memcache
C23_Witness ==
    /\ last.op = "Modify" /\ last.txerr = Nil /\ last.err = Nil
    /\ Cacheable(last.key)
    /\ last.attempt = 2
    /\ last.io.cdel = 1 /\ last.cres = "ok"
    /\ cache[last.key] = NoVal

\* One call of the sweep that keeps running, beside a clock that keeps
\* advancing up to MaxTime: the process that called CollectGarbage is
\* scheduled until the call returns.  The index may lag for ever.
GcLiveOps == 1

\* rows of the table it sweeps: absent, expired long ago, or still valid
GcLiveRows == {NoKv, KvRow(1, 1), KvRow(1, MaxTime - 1)}

GcLiveInit ==
    /\ AedsUnused
    /\ SequenceUnused
    /\ AttemptUnused
    /\ now = MaxTime - 2
    /\ kvStore \in [GcKeys -> GcLiveRows]
    /\ kvIndex = [k \in GcKeys |-> IndexOf(kvStore[k])]
    /\ kvCache = [k \in GcKeys |-> NoEntry]
    /\ kv = <<>>
    /\ kvLast = NoKvLast
    /\ kvPut = <<>>
    /\ gc = GcIdle
    /\ opsLeft = GcLiveOps
    /\ faults = [cache |-> 0, store |-> MaxStoreFaults]

SpecGcLive ==
    GcLiveInit /\ [][GcNext]_vars /\ WF_vars(GcRun) /\ WF_vars(Tick)

\* C24: every call of CollectGarbage returns, and never comes near
\* MaxQueries queries; it returns with the timeout or a store error, or with
\* nil after a page shorter than limit (an empty one, which is not deleted,
\* or one it has deleted).
C24_SweepTerminates ==
    /\ GcRunning ~> GcDone
    /\ [](gc.queries < MaxQueries)
    /\ []((GcDone /\ gc.err = Nil) =>
            /\ gc.queries >= 1
            /\ gc.deletes \in {gc.queries - 1, gc.queries})

\* a sweep has gone round the loop twice, a full page and then a short
\* one, and has returned
C24_Witness ==
    /\ GcDone /\ gc.err = Nil /\ gc.storeErr = Nil
    /\ gc.queries = 2 /\ gc.deletes = 2
    /\ gc.n = limit + 1

\* C25: when the request that returned last is a successful Delete of a key,
\* so that no Put of the key has come after it, a Find of that key does not
\* return a value: it returns NotFound, or the error of a failed store call.
C25_FindAfterDeleteNotFound ==
    [][\A p \in Procs :
         (/\ kv[p].op = "Find" /\ kv'[p].pc = "idle"
          /\ kvLast.op = "Delete" /\ kvLast.err = Nil /\ kvLast.key = kv[p].key)
             => kvLast'.err # Nil]_vars

\* Requests of two processes interleaved call by call, with the clock and
\* memcache evictions, and no failing call.
KvConcOps == 3

KvConcInit ==
    /\ AedsUnused
    /\ SequenceUnused
    /\ AttemptUnused
    /\ now = 1
    /\ kvStore = [k \in KvKeys |-> NoKv]
    /\ kvIndex = [k \in KvKeys |-> NoIdx]
    /\ kvCache = [k \in KvKeys |-> NoEntry]
    /\ kv = [p \in Procs |-> KvIdle]
    /\ kvLast = NoKvLast
    /\ kvPut = [k \in KvKeys |-> NoPut]
    /\ gc = GcIdle
    /\ opsLeft = KvConcOps
    /\ faults = [cache |-> 0, store |-> 0]

KvConcNext ==
    \/ \E p \in Procs : KvBegin(p)
    \/ \E p \in Procs : KvStep(p)
    \/ Tick
    \/ \E k \in KvKeys : KvEvict(k)

SpecKvsConc == KvConcInit /\ [][KvConcNext]_vars

\* C26: when the second of two Puts of a key returns, these two having been
\* the only requests so far and no call having failed, the value memcache
\* holds for the key, if it holds one, is the value of the stored row.
C26_ConcurrentPutsAgree ==
    [][\A p \in Procs :
         (/\ kv[p].op = "Put" /\ kv'[p].pc = "idle"
          /\ kvLast.op = "Put" /\ kvLast.key = kv[p].key
          /\ opsLeft = KvConcOps - 2
          /\ \A q \in Procs : kv'[q].pc = "idle")
             => LET k == kv[p].key
                    held == /\ kvCache'[k].val # NoVal
                            /\ kvCache'[k].exp = 0 \/ now' < kvCache'[k].exp
                IN (held /\ kvStore'[k].exists)
                      => kvCache'[k].val = kvStore'[k].val]_vars

\* C27: every row that a DeleteMulti of the sweep removes has, when it is
\* removed, an Expires before the cutoff of that sweep (stated for the rows
\* whose index entry holds a non-zero Expires before the cutoff: rows the
\* query matched because a value stored for them had expired).
C27_SweepDeletesOnlyExpired ==
    [][(gc.pc = "delete" /\ gc' # gc) =>
          \A k \in DOMAIN kvStore :
              (/\ kvStore[k].exists /\ ~kvStore'[k].exists
               /\ kvIndex[k] > 0 /\ kvIndex[k] < gc.cutOff)
                  => kvStore[k].expires < gc.cutOff]_vars

\* C28: Modify never creates an entity.  A Modify whose transactional Get
\* has found no row returns ErrNoSuchEntity; in that attempt f was not called
\* and no Put was issued, nothing was committed and no memcache.Delete was
\* issued; and the step in which the Get of a Modify finds no row (or fails)
\* ends the call at once and changes neither the datastore nor memcache.
C28_ModifyNeverCreates ==
    /\ []((last.op = "Modify" /\ last.txerr = "ErrNoSuchEntity") =>
             /\ last.err = "ErrNoSuchEntity"
             /\ last.fcalls = last.attempt - 1
             /\ last.io.dput = last.attempt - 1
             /\ ~last.wrote
             /\ last.io.cdel = 0)
    /\ [][\A p \in Procs :
            (/\ pc[p] = "tx_get" /\ loc'[p] # loc[p]
             /\ ~store[loc[p].key].exists)
                => /\ pc'[p] = "idle"
                   /\ last'.op = "Modify"
                   /\ last'.err \in {"ErrNoSuchEntity"} \cup StoreErrs
                   /\ last'.fcalls = loc[p].fcalls
                   /\ store' = store /\ cache' = cache]_vars

\* a Modify of a cacheable entity read the row in its first attempt, lost
\* it to a concurrent Delete and found no row in its second attempt
C28_Witness ==
    /\ last.op = "Modify" /\ last.err = "ErrNoSuchEntity"
    /\ Cacheable(last.key)
    /\ last.attempt = 2 /\ last.fcalls = 1
    /\ ~store[last.key].exists
    /\ last.io.cdel = 0

====
